---- MODULE Spec2Model ----
(***************************************************************************)
(* Model of gfx_hat_stats.py: a three page status display for the GFX HAT. *)
(*                                                                         *)
(* Two threads run the code.  The main thread runs main(): start-up, one   *)
(* initial update_display() and then the 2 second loop.  The touch thread  *)
(* is the thread of the gfxhat touch driver, which calls the handlers      *)
(* registered with touch.on (prev_page, next_page); a handler that sees a  *)
(* 'press' changes current_page and calls update_display() itself.  The    *)
(* source takes no lock, so the steps of the two threads interleave.       *)
(*                                                                         *)
(* Numbers of the code are exact fractions [num, den] in lowest terms      *)
(* (den > 0); each stands for the double nearest to it.  With the readings *)
(* below, the rate of get_network_usage is that double (a division by a    *)
(* power of two and one rounded division) and the percentages of           *)
(* draw_page_2 are exact; the product of draw_graph (line 203), two        *)
(* rounded operations, is computed in double precision as the code does.   *)
(***************************************************************************)
EXTENDS Integers, Sequences, FiniteSets, TLC

(* ------------------------------ bounds -------------------------------- *)

\* Display width in pixel columns.  The source sets 128 (line 27); the model
\* keeps the name and scales it down so that the series and the column copy
\* stay enumerable.
WIDTH == 2

\* Render passes (calls of update_display) one behaviour of Spec may start.
MaxPasses == 2

\* Presses one behaviour of SpecPage handles.
MaxPresses == 5

\* Page-2 data updates one behaviour of SpecSeries makes.
MaxPushes == 4

\* Calls of get_network_usage one behaviour of SpecRate makes.
MaxCalls == 3

(* ------------------------- program constants -------------------------- *)

total_pages == 3

\* Display height in pixel rows.
HEIGHT == 64

Threads == {"main", "touch"}

\* Events the touch driver delivers to a handler as handler(ch, event).
Events == {"press", "release", "held"}

\* Channels main() registers: 3 is the - button, 5 is the + button.
Channels == {3, 5}

(* --------------------------- exact fractions -------------------------- *)

Abs(n) == IF n < 0 THEN -n ELSE n

RECURSIVE GCD(_, _)
GCD(a, b) == IF b = 0 THEN a ELSE GCD(b, a % b)

\* n / d for d # 0, in lowest terms with a positive denominator.
Frac(n, d) ==
    LET g == GCD(Abs(n), Abs(d))
        s == IF d < 0 THEN -1 ELSE 1
    IN  [num |-> (s * n) \div g, den |-> (s * d) \div g]

FromInt(n) == [num |-> n, den |-> 1]

\* q / k and q * k for an integer k (k # 0 for the division).
FracDiv(q, k) == Frac(q.num, q.den * k)
FracMul(q, k) == Frac(q.num * k, q.den)

FracLE(p, q) == p.num * q.den <= q.num * p.den
FracLT(p, q) == p.num * q.den < q.num * p.den

\* Python's min(a, b): b only when b < a.
FracMin(a, b) == IF FracLT(b, a) THEN b ELSE a

(* ------------------------------ inputs -------------------------------- *)

\* psutil.cpu_percent readings.
CpuSamples == {0, 100}

\* A reading of psutil.net_io_counters() together with time.time().
Reading(s, r, t) == [bytes_sent |-> s, bytes_recv |-> r, time |-> t]

\* Readings the concurrent specification draws from.  Taken in the order of
\* their clock they fall back (a restarted source: 512000 then 0 bytes) and
\* then grow past the 1000 KB/s ceiling; taken out of order or twice they
\* give an elapsed time <= 0.
NetReadings ==
    { Reading(256000, 256000, 1), Reading(0, 0, 2), Reading(1024000, 1024000, 3) }

\* Readings of the estimator's own specification, with the spec's example
\* (100, 200) then (150, 250) two seconds later among them.
RateReadings ==
    { Reading(c[1], c[2], t) :
        c \in {<<100, 200>>, <<150, 250>>, <<0, 0>>, <<1024000, 1024000>>},
        t \in {1, 3, 4} }

\* psutil.net_io_counters() raising.
Failed == [bytes_sent |-> -1, bytes_recv |-> -1, time |-> -1]

\* What psutil.cpu_percent gives: a percentage, or an exception.
CpuReadings ==
    {[ok |-> TRUE, percent |-> c] : c \in CpuSamples}
        \cup {[ok |-> FALSE, percent |-> 0]}

\* What the system gives a query: the retrieval works or it fails.
Retrievals == {"ok", "fail"}

\* Values a series handed to draw_graph may hold: zero, values whose bar
\* comes out as 0, in the middle and full, a value above max_value, a value
\* that is not a whole number, a negative one, and the doubles nearest to
\* 50/9 and 700/9, which scale to 1 and 14 rows of the CPU graph but for the
\* rounding of the doubles.
GraphValues ==
    {FromInt(-50), FromInt(0), FromInt(3), FromInt(5), Frac(25, 2), FromInt(97),
     FromInt(100), FromInt(150), Frac(50, 9), Frac(700, 9)}

\* The series handed to draw_graph: WIDTH values, or none at all.
GraphSeries == [1..WIDTH -> GraphValues] \cup {<< >>}

\* The two calls of draw_page_2 (lines 233 and 237): the CPU graph at
\* y_start 12 with height 20, the network graph at y_start 46 with height 18,
\* both with max_value at its default of 100.
GraphRegions ==
    {[y_start |-> 12, height |-> 20, max_value |-> 100],
     [y_start |-> 46, height |-> 18, max_value |-> 100]}

VARIABLES
    current_page,   \* global current_page
    cpu_history,    \* global deque, oldest first
    net_history,    \* global deque, oldest first
    last_net_io,    \* <<>> for None, <<reading>> otherwise
    pc,             \* where each thread is
    ret,            \* where each thread goes when update_display returns
    image,          \* each thread's image buffer of the pass it is in
    col,            \* each thread's x of the pixel copy loop
    net_usage,      \* draw_page_2's local net_usage, per thread
    net_io,         \* get_network_usage's locals, per thread: the reading
                    \* (net_io, current_time) and bytes_sent + bytes_recv
    mutated,        \* per thread: the deque its draw_graph is iterating has
                    \* been appended to since the iteration began
    sampled,        \* history: per thread, the pass it is in has appended
                    \* a sample to cpu_history
    handling,       \* <<>> or <<[ch, event]>>: the handler call in progress
    lcd_buf,        \* the lcd library's pixel buffer: per column, the rows
                    \* of its first part and the rest of its rows
    shown,          \* what lcd.show() last sent to the panel
    passes,         \* render passes started so far
    press_log,      \* history: the presses handled, in order
    cpu_pushed,     \* history: every value appended to cpu_history
    net_pushed,     \* history: every value appended to net_history
    backlight,      \* "unset", "on" (BACKLIGHT_COLOR) or "off" (0, 0, 0)
    exc,            \* the exception raised in main(), or "none"
    graph,          \* SpecGraph: the latest draw_graph call and what it drew
    est,            \* history of the latest get_network_usage call of
                    \* SpecRate: calls made, snapshot before, reading, value
                    \* returned, value returned before, whether it divided
    registered      \* the channels a handler has been registered for by
                    \* touch.on (lines 293-294)

vars == << current_page, cpu_history, net_history, last_net_io, pc, ret, image,
           col, net_usage, net_io, mutated, sampled, handling, lcd_buf, shown,
           passes, press_log, cpu_pushed, net_pushed, backlight, exc, graph,
           est, registered >>

globals == << current_page, cpu_history, net_history, last_net_io >>
locals == << image, col, net_usage, net_io, mutated, sampled >>
display == << lcd_buf, shown >>
estvars == << est >>
histvars == << press_log, cpu_pushed, net_pushed >>
auxvars == << backlight, exc, graph >>

(* --------------------------- pure operators --------------------------- *)

\* deque([0] * WIDTH, maxlen=WIDTH)
InitialHistory == [i \in 1..WIDTH |-> FromInt(0)]

\* Faulty variants of deque.append: one that never evicts, one that evicts
\* the newest element instead of the oldest.
DequeAppend_unbounded(d, v) == Append(d, v)

DequeAppend_dropnewest(d, v) ==
    IF Len(d) >= WIDTH THEN Append(SubSeq(d, 1, Len(d) - 1), v) ELSE Append(d, v)

\* deque.append on a deque of maxlen WIDTH: a full deque drops its oldest
\* (leftmost) element.
DequeAppend(d, v) ==
    IF Len(d) >= WIDTH THEN Append(Tail(d), v) ELSE Append(d, v)

\* Faulty variants of the page arithmetic: a next that stops at the last
\* page, a previous with a truncating remainder (-1 from page 0).
NextOf_saturating(p) == IF p + 1 >= total_pages THEN total_pages - 1 ELSE p + 1

PrevOf_truncating(p) == IF p - 1 < 0 THEN p - 1 ELSE (p - 1) % total_pages

\* (current_page + 1) % total_pages, with Python's floored %.
NextOf(p) == (p + 1) % total_pages

\* (current_page - 1) % total_pages
PrevOf(p) == (p - 1) % total_pages

\* Faulty variants of get_network_usage(): one that forgets the received
\* bytes, one that tests time_delta != 0 instead of time_delta > 0.
get_network_usage_sent_only(last, rd) ==
    IF rd = Failed
    THEN [ret |-> FromInt(0), last |-> last, divided |-> FALSE]
    ELSE
      LET bytes_sent == rd.bytes_sent - last[1].bytes_sent
          time_delta == rd.time - last[1].time
      IN  IF last # <<>> /\ time_delta > 0
          THEN [ret |-> FracDiv(FracDiv(FromInt(bytes_sent), 1024), time_delta),
                last |-> <<rd>>, divided |-> TRUE]
          ELSE [ret |-> FromInt(0), last |-> <<rd>>, divided |-> FALSE]

get_network_usage_nonzero_delta(last, rd) ==
    IF rd = Failed
    THEN [ret |-> FromInt(0), last |-> last, divided |-> FALSE]
    ELSE
      LET bytes_sent == rd.bytes_sent - last[1].bytes_sent
          bytes_recv == rd.bytes_recv - last[1].bytes_recv
          time_delta == rd.time - last[1].time
      IN  IF last # <<>> /\ time_delta # 0
          THEN [ret |-> FracDiv(FracDiv(FromInt(bytes_sent + bytes_recv), 1024),
                                time_delta),
                last |-> <<rd>>, divided |-> TRUE]
          ELSE [ret |-> FromInt(0), last |-> <<rd>>, divided |-> FALSE]

\* get_network_usage(): from the stored snapshot and a reading, the value
\* returned, the snapshot stored afterwards, and whether line 129 divided.
get_network_usage(last, rd) ==
    IF rd = Failed
    THEN [ret |-> FromInt(0), last |-> last, divided |-> FALSE]
    ELSE
      LET bytes_sent == rd.bytes_sent - last[1].bytes_sent
          bytes_recv == rd.bytes_recv - last[1].bytes_recv
          time_delta == rd.time - last[1].time
      IN  IF last # <<>> /\ time_delta > 0
          THEN [ret |-> FracDiv(FracDiv(FromInt(bytes_sent + bytes_recv), 1024),
                                time_delta),
                last |-> <<rd>>, divided |-> TRUE]
          ELSE [ret |-> FromInt(0), last |-> <<rd>>, divided |-> FALSE]

\* net_scaled = min((net_usage / 1000) * 100, 100)
NetScaled(usage) == FracMin(FracMul(FracDiv(usage, 1000), 100), FromInt(100))

(* ------------------------- float arithmetic --------------------------- *)

\* Line 203 works in IEEE 754 doubles. A positive double is a record
\* [bits, exp]: bits are the 53 bits of its significand, most significant
\* first and beginning with a 1, read as a whole number, and the value is
\* that number times 2^exp. Zero has no bits. The values of the model are
\* far from the ends of the exponent range: no subnormals, no overflow.
Precision == 53

\* Whole numbers longer than an integer of the model are sequences of limbs
\* of Limb bits, most significant first. Divisors and factors stay below
\* 2^12, so that a limb times a factor stays an integer of the model.
Limb == 18
Base == 2^Limb

\* A bit sequence without its leading zeros.
Stripped(b) ==
    IF \A i \in 1..Len(b) : b[i] = 0 THEN << >>
    ELSE SubSeq(b, CHOOSE i \in 1..Len(b) :
                      b[i] = 1 /\ \A j \in 1..(i - 1) : b[j] = 0,
                Len(b))

\* The bits of a sequence of limbs.
BitsOfLimbs(n) ==
    Stripped([i \in 1..(Limb * Len(n)) |->
                (n[((i - 1) \div Limb) + 1] \div 2^(Limb - 1 - ((i - 1) % Limb))) % 2])

\* The whole number of at most 31 bits.
RECURSIVE BitsVal(_)
BitsVal(b) ==
    IF Len(b) = 0 THEN 0
    ELSE IF Len(b) = 1 THEN b[1]
    ELSE LET half == Len(b) \div 2
         IN  BitsVal(SubSeq(b, 1, half)) * 2^(Len(b) - half)
                 + BitsVal(SubSeq(b, half + 1, Len(b)))

\* The limbs of a bit sequence.
LimbsOfBits(b) ==
    LET count == (Len(b) + Limb - 1) \div Limb
        padded == [i \in 1..(Limb * count - Len(b)) |-> 0] \o b
    IN  [j \in 1..count |->
            BitsVal(SubSeq(padded, Limb * (j - 1) + 1, Limb * j))]

\* A bit sequence plus one; a sequence of ones grows by a bit.
Increment(b) ==
    IF \A i \in 1..Len(b) : b[i] = 1
    THEN << 1 >> \o [i \in 1..Len(b) |-> 0]
    ELSE LET last == CHOOSE i \in 1..Len(b) :
                        b[i] = 0 /\ \A j \in (i + 1)..Len(b) : b[j] = 1
         IN  [i \in 1..Len(b) |->
                IF i < last THEN b[i] ELSE IF i = last THEN 1 ELSE 0]

\* Round to nearest, ties to even: the double nearest to b * 2^exp, plus
\* something below the last bit of b when sticky. b begins with a 1.
RoundNearest(b, exp, sticky) ==
    IF Len(b) <= Precision
    THEN [bits |-> b \o [i \in 1..(Precision - Len(b)) |-> 0],
          exp |-> exp - (Precision - Len(b))]
    ELSE LET head == SubSeq(b, 1, Precision)
             guard == b[Precision + 1]
             below == sticky \/ \E i \in (Precision + 2)..Len(b) : b[i] = 1
             up == guard = 1 /\ (below \/ head[Precision] = 1)
             raised == IF up THEN Increment(head) ELSE head
         IN  IF Len(raised) > Precision
             THEN [bits |-> SubSeq(raised, 1, Precision),
                   exp |-> exp + (Len(b) - Precision) + 1]
             ELSE [bits |-> raised, exp |-> exp + (Len(b) - Precision)]

\* Long division of the limbs n by the whole number d, 1 <= d < 2^12: limb i
\* of n is brought down to the remainder r.
RECURSIVE LongDivision(_, _, _, _, _)
LongDivision(n, d, i, r, quotient) ==
    IF i > Len(n)
    THEN [quotient |-> quotient, rest |-> r]
    ELSE LET brought == r * Base + n[i]
         IN  LongDivision(n, d, i + 1, brought % d,
                          Append(quotient, brought \div d))

Zero == [bits |-> << >>, exp |-> 0]

\* The double nearest to (n * 2^exp) / d, for a bit sequence n and a whole
\* number d, 1 <= d < 2^12. Four limbs of zeros after n give the quotient
\* more bits than a significand has.
Quotient(n, exp, d) ==
    IF Len(n) = 0 THEN Zero
    ELSE LET q == LongDivision(LimbsOfBits(n) \o << 0, 0, 0, 0 >>, d, 1, 0, << >>)
         IN  RoundNearest(BitsOfLimbs(q.quotient), exp - 4 * Limb, q.rest # 0)

\* The limbs n times the whole number k, 1 <= k < 2^12, from the last limb
\* with a carry.
RECURSIVE Times(_, _, _, _)
Times(n, k, carry, product) ==
    IF Len(n) = 0
    THEN << carry >> \o product
    ELSE LET sum == n[Len(n)] * k + carry
         IN  Times(SubSeq(n, 1, Len(n) - 1), k, sum \div Base,
                   << sum % Base >> \o product)

\* The double nearest to x * k, for a double x and a whole number k,
\* 0 <= k < 2^12.
Product(x, k) ==
    IF Len(x.bits) = 0 \/ k = 0 THEN Zero
    ELSE RoundNearest(BitsOfLimbs(Times(LimbsOfBits(x.bits), k, 0, << >>)),
                      x.exp, FALSE)

\* int() of a double that is not negative and below 2^31: the bits above
\* the binary point.
Truncated(x) ==
    IF Len(x.bits) = 0 THEN 0
    ELSE IF x.exp >= 0
    THEN BitsVal(x.bits \o [i \in 1..x.exp |-> 0])
    ELSE IF Len(x.bits) + x.exp <= 0 THEN 0
    ELSE BitsVal(SubSeq(x.bits, 1, Len(x.bits) + x.exp))

\* float() of the size of a fraction: the double nearest to |q|.
FloatOf(q) == Quotient(BitsOfLimbs(<< Abs(q.num) \div Base, Abs(q.num) % Base >>),
                       0, q.den)

\* int((value / max_value) * (height - 2)) as line 203 computes it: value
\* as a double, a double division, a double multiplication, and int(),
\* which truncates towards zero. 1 <= max_value, 2 <= height.
IntOfScaled(value, height, max_value) ==
    LET x == FloatOf(value)
        size == Truncated(Product(Quotient(x.bits, x.exp, max_value),
                                  height - 2))
    IN  IF value.num < 0 THEN -size ELSE size

(* ----------------------------- draw_graph ----------------------------- *)

\* Python's min(a, b) of two integers.
MinOf(a, b) == IF b < a THEN b ELSE a

\* A faulty variant of the bar height: line 203 without the min of line 204.
BarHeight_unclamped(value, height, max_value) ==
    IntOfScaled(value, height, max_value)

\* Lines 203-204: bar_height = int((value / max_value) * (height - 2)), then
\* min(bar_height, height - 2).
BarHeight(value, height, max_value) ==
    MinOf(IntOfScaled(value, height, max_value), height - 2)

\* A faulty variant of the loop: without the tests of lines 201 and 205.
GraphLines_unguarded(data, y_start, height, max_value) ==
    {[x |-> i,
      y_top |-> (y_start + height - 2)
                    - BarHeight(data[i], height, max_value),
      y_bottom |-> y_start + height - 2] : i \in 1..Len(data)}

\* Lines 200-208: the draw.line calls of the loop. enumerate gives x from 0,
\* data[i] is the value of x = i - 1, and its line is at column x + 1 = i,
\* from y_top down to y_bottom.
GraphLines(data, y_start, height, max_value) ==
    {[x |-> i,
      y_top |-> (y_start + height - 2)
                    - BarHeight(data[i], height, max_value),
      y_bottom |-> y_start + height - 2] :
        i \in {j \in 1..Len(data) :
                 /\ FracLT(FromInt(0), data[j])
                 /\ BarHeight(data[j], height, max_value) > 0}}

\* ImageDraw.rectangle with outline=1, fill=0: the pixels it lights are the
\* outline, both corners included.
RectangleOutline(x0, y0, x1, y1) ==
    {px \in (x0..x1) \X (y0..y1) : px[1] \in {x0, x1} \/ px[2] \in {y0, y1}}

\* ImageDraw.line for a vertical line: both end points included.
LinePixels(l) == {<< l.x, y >> : y \in l.y_top..l.y_bottom}

\* The pixels of the WIDTH by HEIGHT image; drawing outside is clipped.
OnImage(px) == px[1] \in 0..(WIDTH - 1) /\ px[2] \in 0..(HEIGHT - 1)

\* draw_graph (lines 191-208), run with no other thread appending to data:
\* the draw.line calls made and the pixels lit in the image afterwards.
draw_graph(data, y_start, height, max_value) ==
    IF Len(data) = 0
    THEN [lines |-> {}, pixels |-> {}]
    ELSE LET lines == GraphLines(data, y_start, height, max_value)
             border == RectangleOutline(0, y_start, WIDTH - 1,
                                        y_start + height - 1)
         IN  [lines |-> lines,
              pixels |-> {px \in border \cup UNION {LinePixels(l) : l \in lines} :
                            OnImage(px)}]

(* --------------------------- initial state ---------------------------- *)

NoGraph == [drawn |-> FALSE, data |-> << >>, y_start |-> 0, height |-> 0,
            max_value |-> 0, lines |-> {}, pixels |-> {}]

\* A pixel area nothing has been drawn to: of no pass, of no page.
Blank == [pass |-> 0, page |-> -1]

\* The 64 rows of a column are written one after the other (lines 261-263);
\* the model keeps a column as its upper rows and its lower rows, written
\* in two steps.
BlankColumn == [upper |-> Blank, lower |-> Blank]

\* The lcd buffer after lcd.clear().
BlankFrame == [x \in 1..WIDTH |-> BlankColumn]

NoCall == Reading(0, 0, 0)

\* The locals of get_network_usage() outside a call.
NoIO == [rd |-> NoCall, delta |-> 0]

Init ==
    /\ current_page = 0
    /\ cpu_history = InitialHistory
    /\ net_history = InitialHistory
    /\ last_net_io = <<>>
    /\ pc = [t \in Threads |-> IF t = "main" THEN "m_start" ELSE "off"]
    /\ ret = [t \in Threads |-> IF t = "main" THEN "m_try" ELSE "idle"]
    /\ image = [t \in Threads |-> Blank]
    /\ col = [t \in Threads |-> 0]
    /\ net_usage = [t \in Threads |-> FromInt(0)]
    /\ net_io = [t \in Threads |-> NoIO]
    /\ mutated = [t \in Threads |-> FALSE]
    /\ sampled = [t \in Threads |-> FALSE]
    /\ handling = <<>>
    /\ lcd_buf = BlankFrame
    /\ shown = BlankFrame
    /\ passes = 0
    /\ press_log = <<>>
    /\ cpu_pushed = <<>>
    /\ net_pushed = <<>>
    /\ backlight = "unset"
    /\ exc = "none"
    /\ graph = NoGraph
    /\ registered = {}
    /\ est = [calls |-> 0, prev |-> <<>>, inp |-> NoCall, out |-> FromInt(0),
              prev_out |-> FromInt(0), divided |-> FALSE]

(* ------------------------------ metrics ------------------------------- *)

\* What a metric query ends with: a value returned or an exception raised.
Returned(v) == [raised |-> FALSE, value |-> v]

Raised == [raised |-> TRUE, value |-> "exception"]

\* Lines 53-62: try/except, "No network" when the socket calls fail.
get_local_ip(r) == Returned(IF r = "fail" THEN "No network" ELSE "address")

\* Lines 64-84: try/except, False when the process scan or pgrep fails.
is_copyparty_running(r) == Returned(IF r = "fail" THEN "False" ELSE "found")

\* Lines 86-92: try/except, (None, None, None) when disk_usage fails.
get_disk_usage(r) == Returned(IF r = "fail" THEN "None" ELSE "usage")

\* Lines 94-97: no try; an exception of psutil.virtual_memory() leaves the
\* function.
get_memory_usage(r) == IF r = "fail" THEN Raised ELSE Returned("usage")

\* Lines 99-109: try/except, None when the thermal file cannot be read.
get_cpu_temp(r) == Returned(IF r = "fail" THEN "None" ELSE "temp")

\* Lines 111-113: no try; an exception of psutil.cpu_percent() leaves the
\* function.
get_cpu_usage(rd) == [raised |-> ~rd.ok, value |-> FromInt(rd.percent)]

(* ----------------------------- exceptions ----------------------------- *)

\* The locals of the calls thread t is in are gone.
LocalsGone(t) ==
    /\ image' = [image EXCEPT ![t] = Blank]
    /\ col' = [col EXCEPT ![t] = 0]
    /\ net_usage' = [net_usage EXCEPT ![t] = FromInt(0)]
    /\ net_io' = [net_io EXCEPT ![t] = NoIO]
    /\ mutated' = [mutated EXCEPT ![t] = FALSE]
    /\ sampled' = [sampled EXCEPT ![t] = FALSE]

\* main() ends, by returning or by an exception nothing catches: its locals
\* are gone. The driver's thread is not stopped by this: it goes on with the
\* handler it is in, and with further events, for as long as the process
\* lasts after main() (a thread that is stopped takes no further step).
MainEnds ==
    /\ pc' = [pc EXCEPT !["main"] = "done"]
    /\ LocalsGone("main")
    /\ UNCHANGED handling

\* An exception of the given kind is raised in thread t and no handler of
\* main() matches it (only KeyboardInterrupt is caught, and only inside the
\* try block): main() ends there, without the clean-up. In the touch thread
\* it leaves the handler and reaches the driver, which either goes on or
\* ends its thread.
Raise(t, kind) ==
    IF t = "main"
    THEN MainEnds /\ exc' = kind
    ELSE /\ \E to \in {"idle", "dead"} : pc' = [pc EXCEPT ![t] = to]
         /\ handling' = <<>>
         /\ LocalsGone(t)
         /\ UNCHANGED exc

(* --------------------------- update_display --------------------------- *)

\* A call of update_display() by thread t that returns to `back`: the image
\* buffer is allocated (line 242) and the font loaded, both local to the call.
StartPass(t, back) ==
    /\ passes' = passes + 1
    /\ image' = [image EXCEPT ![t] = [pass |-> passes + 1, page |-> -1]]
    /\ col' = [col EXCEPT ![t] = 0]
    /\ ret' = [ret EXCEPT ![t] = back]
    /\ pc' = [pc EXCEPT ![t] = "u_t0"]
    /\ UNCHANGED << net_usage, net_io, mutated, sampled >>

Drawn(t, p) == image' = [image EXCEPT ![t].page = p]

\* A page routine of thread t ends: it returns with page p drawn into the
\* image, or the exception of one of its queries leaves it.
PageEnds(t, p, raised) ==
    IF raised
    THEN Raise(t, "metric")
    ELSE /\ Drawn(t, p)
         /\ pc' = [pc EXCEPT ![t] = "u_copy"]
         /\ UNCHANGED << col, net_usage, net_io, mutated, sampled, handling,
                         exc >>

\* Line 252: if current_page == 0: draw_page_0(draw, font)
\* draw_page_0 (lines 151-170) asks for the address and the service.
u_t0(t) ==
    /\ pc[t] = "u_t0"
    /\ IF current_page = 0
       THEN \E ip \in Retrievals, cp \in Retrievals :
              PageEnds(t, 0, get_local_ip(ip).raised
                             \/ is_copyparty_running(cp).raised)
       ELSE /\ pc' = [pc EXCEPT ![t] = "u_t1"]
            /\ UNCHANGED << locals, handling, exc >>
    /\ UNCHANGED << globals, ret, display, passes, histvars, estvars,
                    registered, backlight, graph >>

\* Line 254: elif current_page == 1: draw_page_1(draw, font)
\* draw_page_1 (lines 172-189) asks for the two disks and the memory.
u_t1(t) ==
    /\ pc[t] = "u_t1"
    /\ IF current_page = 1
       THEN \E sd \in Retrievals, nvme \in Retrievals, ram \in Retrievals :
              PageEnds(t, 1, get_disk_usage(sd).raised
                             \/ get_disk_usage(nvme).raised
                             \/ get_memory_usage(ram).raised)
       ELSE /\ pc' = [pc EXCEPT ![t] = "u_t2"]
            /\ UNCHANGED << locals, handling, exc >>
    /\ UNCHANGED << globals, ret, display, passes, histvars, estvars,
                    registered, backlight, graph >>

\* Line 256: elif current_page == 2: draw_page_2(draw, font); when this test
\* fails too, no page routine runs and the image stays empty.
u_t2(t) ==
    /\ pc[t] = "u_t2"
    /\ pc' = [pc EXCEPT ![t] = IF current_page = 2 THEN "p2_cpu" ELSE "u_copy"]
    /\ UNCHANGED << globals, ret, locals, handling, display, passes, histvars,
                    estvars, registered, auxvars >>

\* draw_page_2, lines 213-215: sample the CPU, read the temperature and
\* append to cpu_history. The append reaches a draw_graph of the other
\* thread that is iterating cpu_history (line 200).
p2_cpu(t) ==
    /\ pc[t] = "p2_cpu"
    /\ \E rd \in CpuReadings, temp \in Retrievals :
         LET cpu == get_cpu_usage(rd)
         IN  IF cpu.raised \/ get_cpu_temp(temp).raised
             THEN /\ Raise(t, "metric")
                  /\ UNCHANGED << cpu_history, cpu_pushed >>
             ELSE /\ cpu_history' = DequeAppend(cpu_history, cpu.value)
                  /\ cpu_pushed' = Append(cpu_pushed, cpu.value)
                  /\ sampled' = [sampled EXCEPT ![t] = TRUE]
                  /\ mutated' = [u \in Threads |->
                                   IF u # t /\ pc[u] = "g_cpu" THEN TRUE
                                   ELSE mutated[u]]
                  /\ pc' = [pc EXCEPT ![t] = "p2_net"]
                  /\ UNCHANGED << image, col, net_usage, net_io, handling, exc >>
    /\ UNCHANGED << current_page, net_history, last_net_io, ret, display,
                    passes, press_log, net_pushed, estvars,
                    registered, backlight, graph >>

\* get_network_usage(), lines 120-124: the counters and the clock are read;
\* an exception of psutil returns 0 (line 143); with no snapshot stored
\* (line 123) the call goes to line 136; else bytes_sent is taken from the
\* snapshot stored at this moment.
p2_net(t) ==
    /\ pc[t] = "p2_net"
    /\ \E rd \in NetReadings \cup {Failed} :
         IF rd = Failed
         THEN /\ net_usage' = [net_usage EXCEPT ![t] = FromInt(0)]
              /\ pc' = [pc EXCEPT ![t] = "p2_push"]
              /\ UNCHANGED net_io
         ELSE IF last_net_io = <<>>
         THEN /\ net_usage' = [net_usage EXCEPT ![t] = FromInt(0)]
              /\ net_io' = [net_io EXCEPT ![t] = [rd |-> rd, delta |-> 0]]
              /\ pc' = [pc EXCEPT ![t] = "n_store"]
         ELSE /\ net_io' = [net_io EXCEPT ![t] =
                              [rd |-> rd,
                               delta |-> rd.bytes_sent - last_net_io[1].bytes_sent]]
              /\ pc' = [pc EXCEPT ![t] = "n_recv"]
              /\ UNCHANGED net_usage
    /\ UNCHANGED << globals, ret, image, col, mutated, sampled, handling,
                    display, passes, histvars, estvars, registered, auxvars >>

\* get_network_usage(), line 125: bytes_recv is taken from the snapshot
\* stored at this moment.
n_recv(t) ==
    /\ pc[t] = "n_recv"
    /\ net_io' = [net_io EXCEPT ![t].delta =
                     @ + (net_io[t].rd.bytes_recv - last_net_io[1].bytes_recv)]
    /\ pc' = [pc EXCEPT ![t] = "n_time"]
    /\ UNCHANGED << globals, ret, image, col, net_usage, mutated, sampled,
                    handling, display, passes, histvars, estvars,
                    registered, auxvars >>

\* get_network_usage(), lines 126-129: time_delta is taken from the snapshot
\* stored at this moment; when it is positive the rate is computed, else the
\* call goes to line 136 and will return 0.
n_time(t) ==
    /\ pc[t] = "n_time"
    /\ LET time_delta == net_io[t].rd.time - last_net_io[1].time
       IN  net_usage' = [net_usage EXCEPT ![t] =
                           IF time_delta > 0
                           THEN FracDiv(FracDiv(FromInt(net_io[t].delta), 1024),
                                        time_delta)
                           ELSE FromInt(0)]
    /\ pc' = [pc EXCEPT ![t] = "n_store"]
    /\ UNCHANGED << globals, ret, image, col, net_io, mutated, sampled,
                    handling, display, passes, histvars, estvars,
                    registered, auxvars >>

\* get_network_usage(), lines 130-134 or 136-140: the reading of this call
\* is stored as the snapshot, and the call returns.
n_store(t) ==
    /\ pc[t] = "n_store"
    /\ last_net_io' = << net_io[t].rd >>
    /\ net_io' = [net_io EXCEPT ![t] = NoIO]
    /\ pc' = [pc EXCEPT ![t] = "p2_push"]
    /\ UNCHANGED << current_page, cpu_history, net_history, ret, image, col,
                    net_usage, mutated, sampled, handling, display, passes,
                    histvars, estvars, registered, auxvars >>

\* draw_page_2, lines 219-220: scale and append to net_history. The append
\* reaches a draw_graph of the other thread that is iterating net_history
\* (line 200).
p2_push(t) ==
    /\ pc[t] = "p2_push"
    /\ net_history' = DequeAppend(net_history, NetScaled(net_usage[t]))
    /\ net_pushed' = Append(net_pushed, NetScaled(net_usage[t]))
    /\ mutated' = [u \in Threads |->
                     IF u # t /\ pc[u] = "g_net" THEN TRUE
                     ELSE mutated[u]]
    /\ pc' = [pc EXCEPT ![t] = "d_cpu"]
    /\ UNCHANGED << current_page, cpu_history, last_net_io, ret, image, col,
                    net_usage, net_io, sampled, handling, display, passes,
                    press_log, cpu_pushed, estvars, registered, auxvars >>

\* draw_page_2, lines 223-233, and draw_graph(draw, cpu_history, 12, 20) up
\* to line 200: the font and the label are local; the loop creates its
\* iterator over cpu_history, which records the deque's state of this
\* moment. An append made before this step is not seen by the iterator.
d_cpu(t) ==
    /\ pc[t] = "d_cpu"
    /\ mutated' = [mutated EXCEPT ![t] = FALSE]
    /\ pc' = [pc EXCEPT ![t] = "g_cpu"]
    /\ UNCHANGED << globals, ret, image, col, net_usage, net_io, sampled,
                    handling, display, passes, histvars, estvars,
                    registered, auxvars >>

\* draw_graph(draw, cpu_history, 12, 20), lines 200-208: the loop over
\* cpu_history ends: the deque's iterator raises RuntimeError (deque mutated
\* during iteration) at its next step when the deque was appended to after
\* the iterator was created, and nothing catches it. Else the call returns;
\* no deque is iterated until the next loop begins.
g_cpu(t) ==
    /\ pc[t] = "g_cpu"
    /\ IF mutated[t]
       THEN Raise(t, "render")
       ELSE /\ pc' = [pc EXCEPT ![t] = "d_net"]
            /\ UNCHANGED << locals, handling, exc >>
    /\ UNCHANGED << globals, ret, display, passes, histvars, estvars,
                    registered, backlight, graph >>

\* draw_page_2, lines 236-237, and draw_graph(draw, net_history, 46, 18) up
\* to line 200: the label is local; the loop creates its iterator over
\* net_history, which records the deque's state of this moment.
d_net(t) ==
    /\ pc[t] = "d_net"
    /\ mutated' = [mutated EXCEPT ![t] = FALSE]
    /\ pc' = [pc EXCEPT ![t] = "g_net"]
    /\ UNCHANGED << globals, ret, image, col, net_usage, net_io, sampled,
                    handling, display, passes, histvars, estvars,
                    registered, auxvars >>

\* draw_graph(draw, net_history, 46, 18), lines 200-208: the loop over
\* net_history ends, with RuntimeError when the deque was appended to after
\* the iterator was created; else draw_page_2 returns.
g_net(t) ==
    /\ pc[t] = "g_net"
    /\ IF mutated[t] THEN Raise(t, "render") ELSE PageEnds(t, 2, FALSE)
    /\ UNCHANGED << globals, ret, display, passes, histvars, estvars,
                    registered, backlight, graph >>

\* Lines 260-263: the upper rows of column x = col of the image are copied
\* into the lcd buffer, pixel by pixel.
u_copy(t) ==
    /\ pc[t] = "u_copy"
    /\ lcd_buf' = [lcd_buf EXCEPT ![col[t] + 1].upper = image[t]]
    /\ pc' = [pc EXCEPT ![t] = "u_lower"]
    /\ UNCHANGED << globals, ret, locals, handling, shown, passes, histvars,
                    estvars, registered, auxvars >>

\* Lines 260-263: the lower rows of the column are copied, and x moves on.
u_lower(t) ==
    /\ pc[t] = "u_lower"
    /\ lcd_buf' = [lcd_buf EXCEPT ![col[t] + 1].lower = image[t]]
    /\ col' = [col EXCEPT ![t] = col[t] + 1]
    /\ pc' = [pc EXCEPT ![t] = IF col[t] + 1 = WIDTH THEN "u_show" ELSE "u_copy"]
    /\ UNCHANGED << globals, ret, image, net_usage, net_io, mutated, sampled,
                    handling, shown, passes, histvars, estvars,
                    registered, auxvars >>

\* Line 265: lcd.show() sends the lcd buffer to the panel; update_display
\* returns (its locals are gone), and a handler that called it returns to
\* the driver. When the transfer to the panel fails, lcd.show() raises.
u_show(t) ==
    /\ pc[t] = "u_show"
    /\ \E io \in Retrievals :
         IF io = "fail"
         THEN Raise(t, "display") /\ UNCHANGED shown
         ELSE /\ shown' = lcd_buf
              /\ pc' = [pc EXCEPT ![t] = ret[t]]
              /\ handling' = IF t = "touch" THEN <<>> ELSE handling
              /\ LocalsGone(t)
              /\ UNCHANGED exc
    /\ UNCHANGED << globals, ret, lcd_buf, passes, histvars, estvars,
                    registered, backlight, graph >>

(* -------------------------------- main -------------------------------- *)

\* Lines 283-293: the banner, lcd.clear(), lcd.show() and touch.on(3,
\* prev_page), which starts the driver's thread; until then main() is alone.
m_start ==
    /\ pc["main"] = "m_start"
    /\ \E io \in Retrievals :
         IF io = "fail"
         THEN Raise("main", "display") /\ UNCHANGED << display, registered >>
         ELSE /\ lcd_buf' = BlankFrame
              /\ shown' = BlankFrame
              /\ registered' = {3}
              /\ pc' = [pc EXCEPT !["main"] = "m_on5", !["touch"] = "idle"]
              /\ UNCHANGED << locals, handling, exc >>
    /\ UNCHANGED << globals, ret, passes, histvars, estvars, backlight, graph >>

\* Line 294: touch.on(5, next_page)
m_on5 ==
    /\ pc["main"] = "m_on5"
    /\ registered' = registered \cup {5}
    /\ pc' = [pc EXCEPT !["main"] = "m_backlight"]
    /\ UNCHANGED << globals, ret, locals, handling, display, passes, histvars,
                    estvars, auxvars >>

\* Line 297: set_backlight() (lines 146-149); backlight.show() raises when
\* the transfer fails.
m_backlight ==
    /\ pc["main"] = "m_backlight"
    /\ \E io \in Retrievals :
         IF io = "fail"
         THEN Raise("main", "display") /\ UNCHANGED backlight
         ELSE /\ backlight' = "on"
              /\ pc' = [pc EXCEPT !["main"] = "m_initial"]
              /\ UNCHANGED << locals, handling, exc >>
    /\ UNCHANGED << globals, ret, display, passes, histvars, estvars,
                    registered, graph >>

\* The handler of channel ch has been registered (lines 293 and 294).
Registered(ch) == ch \in registered

\* Line 300: the initial update_display(), before the try block.
m_initial ==
    /\ pc["main"] = "m_initial"
    /\ passes < MaxPasses
    /\ StartPass("main", "m_try")
    /\ UNCHANGED << globals, handling, display, histvars, estvars,
                    registered, auxvars >>

\* Lines 302-304: main() enters the try block and the loop.
m_try ==
    /\ pc["main"] = "m_try"
    /\ pc' = [pc EXCEPT !["main"] = "m_loop"]
    /\ UNCHANGED << globals, ret, locals, handling, display, passes, histvars,
                    estvars, registered, auxvars >>

\* Line 305: update_display() of one loop iteration.
m_loop ==
    /\ pc["main"] = "m_loop"
    /\ passes < MaxPasses
    /\ StartPass("main", "m_sleep")
    /\ UNCHANGED << globals, handling, display, histvars, estvars,
                    registered, auxvars >>

\* Line 306: time.sleep(2) returns and the loop goes round.
m_sleep ==
    /\ pc["main"] = "m_sleep"
    /\ pc' = [pc EXCEPT !["main"] = "m_loop"]
    /\ UNCHANGED << globals, ret, locals, handling, display, passes, histvars,
                    estvars, registered, auxvars >>

PassLocs == {"u_t0", "u_t1", "u_t2", "p2_cpu", "p2_net", "n_recv", "n_time",
             "n_store", "p2_push", "d_cpu", "g_cpu", "d_net", "g_net",
             "u_copy", "u_lower", "u_show"}

\* Thread t is inside update_display().
InPass(t) == pc[t] \in PassLocs

\* main() is inside the try block of lines 302-306, update_display() of the
\* loop included.
InTry ==
    \/ pc["main"] \in {"m_loop", "m_sleep"}
    \/ InPass("main") /\ ret["main"] = "m_sleep"

\* Ctrl+C: KeyboardInterrupt is raised in the main thread wherever it is.
\* Inside the try block the except clause of line 307 takes it: the call
\* main() is in is left and the clean-up begins. Elsewhere (start-up, the
\* initial update_display(), the clean-up itself) the exception leaves
\* main() with nothing done.
interrupt ==
    /\ pc["main"] # "done"
    /\ exc' = "KeyboardInterrupt"
    /\ IF InTry
       THEN /\ pc' = [pc EXCEPT !["main"] = "c_clear"]
            /\ LocalsGone("main")
            /\ UNCHANGED handling
       ELSE MainEnds
    /\ UNCHANGED << globals, ret, display, passes, histvars, estvars,
                    registered, backlight, graph >>

\* Lines 308-309: lcd.clear() empties the lcd buffer.
c_clear ==
    /\ pc["main"] = "c_clear"
    /\ lcd_buf' = BlankFrame
    /\ pc' = [pc EXCEPT !["main"] = "c_show"]
    /\ UNCHANGED << globals, ret, locals, handling, shown, passes, histvars,
                    estvars, registered, auxvars >>

\* Line 310: lcd.show() sends the lcd buffer, as it is by now, to the panel.
c_show ==
    /\ pc["main"] = "c_show"
    /\ \E io \in Retrievals :
         IF io = "fail"
         THEN Raise("main", "display") /\ UNCHANGED shown
         ELSE /\ shown' = lcd_buf
              /\ pc' = [pc EXCEPT !["main"] = "c_backlight"]
              /\ UNCHANGED << locals, handling, exc >>
    /\ UNCHANGED << globals, ret, lcd_buf, passes, histvars, estvars,
                    registered, backlight, graph >>

\* Lines 311-312: the backlight is switched off and main() returns.
c_backlight ==
    /\ pc["main"] = "c_backlight"
    /\ \E io \in Retrievals :
         IF io = "fail"
         THEN Raise("main", "display") /\ UNCHANGED backlight
         ELSE /\ backlight' = "off"
              /\ MainEnds
              /\ UNCHANGED exc
    /\ UNCHANGED << globals, ret, display, passes, histvars, estvars,
                    registered, graph >>

(* ------------------------------- touch -------------------------------- *)

\* The touch driver calls the handler registered for channel ch with an event
\* (at most `bound` passes are started in one behaviour).
TouchEvent(ch, ev, bound) ==
    /\ pc["touch"] = "idle"
    /\ Registered(ch)
    /\ ev = "press" => passes < bound
    /\ handling' = << [ch |-> ch, event |-> ev] >>
    /\ pc' = [pc EXCEPT !["touch"] = "cb"]
    /\ UNCHANGED << globals, ret, locals, display, passes, histvars, estvars,
                    registered, auxvars >>

touch_event(ch, ev) == TouchEvent(ch, ev, MaxPasses)

\* Faulty variants of a handler: one that changes the page on a 'press' and
\* returns without calling update_display(), one that treats every event as a
\* 'press'.
Handler_norender(ch, to) ==
    /\ pc["touch"] = "cb"
    /\ handling[1].ch = ch
    /\ IF handling[1].event = "press"
       THEN /\ current_page' = to
            /\ press_log' = Append(press_log, [ch |-> ch, before |-> current_page,
                                               after |-> to])
       ELSE UNCHANGED << current_page, press_log >>
    /\ pc' = [pc EXCEPT !["touch"] = "idle"]
    /\ handling' = <<>>
    /\ UNCHANGED << cpu_history, net_history, last_net_io, passes, ret, locals,
                    display, cpu_pushed, net_pushed, estvars,
                    registered, auxvars >>

Handler_anyevent(ch, to) ==
    /\ pc["touch"] = "cb"
    /\ handling[1].ch = ch
    /\ passes < MaxPresses
    /\ current_page' = to
    /\ press_log' = Append(press_log, [ch |-> ch, before |-> current_page,
                                       after |-> to])
    /\ StartPass("touch", "idle")
    /\ UNCHANGED << cpu_history, net_history, last_net_io, handling, display,
                    cpu_pushed, net_pushed, estvars, registered, auxvars >>

\* A handler's body: on 'press' set current_page to `to` and call
\* update_display(); on any other event return at once.
Handler(ch, to) ==
    /\ pc["touch"] = "cb"
    /\ handling[1].ch = ch
    /\ IF handling[1].event = "press"
       THEN /\ current_page' = to
            /\ press_log' = Append(press_log, [ch |-> ch, before |-> current_page,
                                               after |-> to])
            /\ StartPass("touch", "idle")
            /\ UNCHANGED handling
       ELSE /\ pc' = [pc EXCEPT !["touch"] = "idle"]
            /\ handling' = <<>>
            /\ UNCHANGED << current_page, press_log, passes, ret, locals >>
    /\ UNCHANGED << cpu_history, net_history, last_net_io, display, cpu_pushed,
                    net_pushed, estvars, registered, auxvars >>

\* Lines 267-272, registered on channel 5 (the + button).
next_page == Handler(5, NextOf(current_page))

\* Lines 274-279, registered on channel 3 (the - button).
prev_page == Handler(3, PrevOf(current_page))

(* ---------------------------- specification --------------------------- *)

update_display(t) ==
    \/ u_t0(t)
    \/ u_t1(t)
    \/ u_t2(t)
    \/ p2_cpu(t)
    \/ p2_net(t)
    \/ n_recv(t)
    \/ n_time(t)
    \/ n_store(t)
    \/ p2_push(t)
    \/ d_cpu(t)
    \/ g_cpu(t)
    \/ d_net(t)
    \/ g_net(t)
    \/ u_copy(t)
    \/ u_lower(t)
    \/ u_show(t)

Next ==
    \/ m_start
    \/ m_on5
    \/ m_backlight
    \/ m_initial
    \/ m_try
    \/ m_loop
    \/ m_sleep
    \/ interrupt
    \/ c_clear
    \/ c_show
    \/ c_backlight
    \/ \E ch \in Channels, ev \in Events : touch_event(ch, ev)
    \/ next_page
    \/ prev_page
    \/ \E t \in Threads : update_display(t)

Spec == Init /\ [][Next]_vars

(* ------------------------ the page model alone ------------------------ *)

\* The touch thread alone, after main() has registered the handlers and set
\* the backlight and before it goes on: presses and the render passes they
\* start.
page_event(ch, ev) ==
    /\ pc["main"] = "m_initial"
    /\ TouchEvent(ch, ev, MaxPresses)

NextPage ==
    \/ m_start
    \/ m_on5
    \/ m_backlight
    \/ \E ch \in Channels, ev \in Events : page_event(ch, ev)
    \/ next_page
    \/ prev_page
    \/ update_display("touch")

SpecPage == Init /\ [][NextPage]_vars

(* ---------------------- the rolling series alone ---------------------- *)

\* The data updates of one draw_page_2 call run by one thread on its own
\* (lines 213-220): cpu sample appended, network usage taken, scaled and
\* appended.
page_2_data(c, rd) ==
    /\ Len(cpu_pushed) < MaxPushes
    /\ LET r == get_network_usage(last_net_io, rd)
       IN  /\ cpu_history' = DequeAppend(cpu_history, FromInt(c))
           /\ cpu_pushed' = Append(cpu_pushed, FromInt(c))
           /\ last_net_io' = r.last
           /\ net_history' = DequeAppend(net_history, NetScaled(r.ret))
           /\ net_pushed' = Append(net_pushed, NetScaled(r.ret))
    /\ UNCHANGED << current_page, pc, ret, locals, handling, display, passes,
                    press_log, estvars, registered, auxvars >>

NextSeries ==
    \E c \in CpuSamples, rd \in NetReadings \cup {Failed} : page_2_data(c, rd)

SpecSeries == Init /\ [][NextSeries]_vars

(* ----------------------- the rate estimator alone --------------------- *)

\* One call of get_network_usage() with reading rd, calls following one
\* another.
rate_call(rd) ==
    /\ est.calls < MaxCalls
    /\ LET r == get_network_usage(last_net_io, rd)
       IN  /\ last_net_io' = r.last
           /\ est' = [calls |-> est.calls + 1, prev |-> last_net_io, inp |-> rd,
                      out |-> r.ret, prev_out |-> est.out,
                      divided |-> r.divided]
    /\ UNCHANGED << current_page, cpu_history, net_history, pc, ret, locals,
                    handling, display, passes, histvars, auxvars, registered >>

NextRate == \E rd \in RateReadings \cup {Failed} : rate_call(rd)

SpecRate == Init /\ [][NextRate]_vars

(* --------------------------- draw_graph alone -------------------------- *)

\* One call of draw_graph on a fresh image; the calls are independent of
\* one another, a behaviour makes one.
graph_call(data, rg) ==
    /\ ~graph.drawn
    /\ LET g == draw_graph(data, rg.y_start, rg.height, rg.max_value)
       IN  graph' = [drawn |-> TRUE, data |-> data, y_start |-> rg.y_start,
                     height |-> rg.height, max_value |-> rg.max_value,
                     lines |-> g.lines, pixels |-> g.pixels]
    /\ UNCHANGED << globals, pc, ret, locals, handling, display, passes,
                    histvars, estvars, registered, backlight, exc >>

NextGraph == \E data \in GraphSeries, rg \in GraphRegions : graph_call(data, rg)

SpecGraph == Init /\ [][NextGraph]_vars

(* ============================== claims ================================ *)

\* Every part of a frame comes from the same render pass.
Unmixed(frame) ==
    \A x, y \in 1..WIDTH :
        /\ frame[x].upper.pass = frame[y].upper.pass
        /\ frame[x].upper.pass = frame[y].lower.pass

\* C1 (Spec): render passes are serialized: the main loop's pass and a
\* handler's pass never overlap, and the frame on the panel is never a mix of
\* two passes.
C1_PassesSerialized ==
    /\ ~(InPass("main") /\ InPass("touch"))
    /\ Unmixed(shown)

\* C2 (Spec): the step in which a handler acts on a 'press' takes page p to
\* p + 1, or to 0 from the last page (+ button), and to p - 1, or to the last
\* page from 0 (- button).
C2_PressStep ==
    [][ (pc["touch"] = "cb" /\ handling[1].event = "press"
                            /\ pc'["touch"] \notin {"cb", "off"})
        => /\ handling[1].ch = 5 =>
                current_page' = IF current_page = total_pages - 1 THEN 0
                                ELSE current_page + 1
           /\ handling[1].ch = 3 =>
                current_page' = IF current_page = 0 THEN total_pages - 1
                                ELSE current_page - 1 ]_vars

\* C2 witness: both wraparounds have happened: - from page 0 to the last page,
\* then + from the last page to page 0.
C2_Witness ==
    /\ Len(press_log) = 2
    /\ press_log[1] = [ch |-> 3, before |-> 0, after |-> total_pages - 1]
    /\ press_log[2] = [ch |-> 5, before |-> total_pages - 1, after |-> 0]

\* C3 (Spec): current_page is always one of 0, 1, 2 and every render pass
\* that is past the page dispatch has run exactly one page routine.
C3_OnePageSelected ==
    /\ current_page \in 0..(total_pages - 1)
    /\ \A t \in Threads :
         pc[t] \in {"u_copy", "u_lower", "u_show"}
            => image[t].page \in 0..(total_pages - 1)

\* C4 (SpecPage): any total_pages presses of + in a row bring the page back
\* to the page before the first of them.
C4_NextCycle ==
    \A i \in 1..Len(press_log) :
        ( /\ i + total_pages - 1 <= Len(press_log)
          /\ \A j \in i..(i + total_pages - 1) : press_log[j].ch = 5 )
        => press_log[i + total_pages - 1].after = press_log[i].before

\* C4 witness: three presses of + in a row were handled, starting from the
\* last page (reached by one press of -).
C4_Witness ==
    /\ Len(press_log) = 4
    /\ press_log[1].ch = 3
    /\ \A j \in 2..4 : press_log[j].ch = 5
    /\ press_log[2].before = total_pages - 1
    /\ current_page = total_pages - 1

\* C5 (Spec): both series hold exactly WIDTH values in every state.
C5_SeriesLength ==
    /\ Len(cpu_history) = WIDTH
    /\ Len(net_history) = WIDTH

\* C5 witness: both series have been pushed to MaxPasses times, by passes of
\* both threads.
C5_Witness ==
    /\ Len(cpu_pushed) = MaxPasses
    /\ Len(net_pushed) = MaxPasses
    /\ Len(cpu_history) = WIDTH

\* What a series holds after the pushes p: the last WIDTH of them, or the
\* initial zeros that are left followed by all of them.
SeriesAfter(p) ==
    IF Len(p) >= WIDTH
    THEN SubSeq(p, Len(p) - WIDTH + 1, Len(p))
    ELSE [i \in 1..WIDTH |-> IF i <= WIDTH - Len(p) THEN FromInt(0)
                             ELSE p[i - (WIDTH - Len(p))]]

\* C6 (SpecSeries): after k pushes a series is the last WIDTH pushed values in
\* push order (k >= WIDTH), or WIDTH - k zeros followed by the k pushed values.
C6_SeriesContents ==
    /\ cpu_history = SeriesAfter(cpu_pushed)
    /\ net_history = SeriesAfter(net_pushed)

\* C6 witness: more than WIDTH pushes, so that pushed values were evicted, the
\* oldest and newest kept values differing in both series.
C6_Witness ==
    /\ Len(cpu_pushed) > WIDTH
    /\ cpu_history[1] # cpu_history[WIDTH]
    /\ net_history[1] # net_history[WIDTH]
    /\ cpu_pushed[1] # cpu_history[1]

\* The latest call of SpecRate read counters and had a snapshot to compare.
EstCompared == est.calls > 0 /\ est.inp # Failed /\ est.prev # <<>>

EstElapsed == est.inp.time - est.prev[1].time

EstTotalDelta ==
    (est.inp.bytes_sent + est.inp.bytes_recv)
      - (est.prev[1].bytes_sent + est.prev[1].bytes_recv)

\* C7 (SpecRate): no call returns a negative rate, and a call that reads a
\* total below the stored one stores its reading as the new baseline.
C7_NoNegativeRate ==
    /\ est.out.num >= 0
    /\ (EstCompared /\ EstTotalDelta < 0) => last_net_io = << est.inp >>

\* C8 as stated (SpecRate): the first call returns 0 and stores its reading; a
\* later call with elapsed time > 0 returns (total - prior total) / elapsed
\* and stores its reading.
C8_RatePerSecond ==
    /\ (est.calls > 0 /\ est.inp # Failed /\ est.prev = <<>>)
         => est.out = FromInt(0) /\ last_net_io = << est.inp >>
    /\ (EstCompared /\ EstElapsed > 0)
         => /\ est.out = Frac(EstTotalDelta, EstElapsed)
            /\ last_net_io = << est.inp >>

\* C8 amended (SpecRate): as C8, the value returned being kilobytes per
\* second: (total - prior total) / 1024 / elapsed.
C8_RateKBPerSecond ==
    /\ (est.calls > 0 /\ est.inp # Failed /\ est.prev = <<>>)
         => est.out = FromInt(0) /\ last_net_io = << est.inp >>
    /\ (EstCompared /\ EstElapsed > 0)
         => /\ est.out = Frac(EstTotalDelta, 1024 * EstElapsed)
            /\ last_net_io = << est.inp >>

\* C8 witness: the spec's example, (100, 200) then (150, 250) two seconds
\* later: 100 bytes in 2 s are 25/512 KB/s.
C8_Witness ==
    /\ est.prev = << Reading(100, 200, 1) >>
    /\ est.inp = Reading(150, 250, 3)
    /\ est.out = [num |-> 25, den |-> 512]
    /\ last_net_io = << Reading(150, 250, 3) >>

\* C9 as stated (SpecRate): with elapsed time <= 0 the call does not divide,
\* leaves the stored snapshot as it was and returns the previous rate or 0.
C9_AnomalySkipsUpdate ==
    (EstCompared /\ EstElapsed <= 0)
      => /\ ~est.divided
         /\ last_net_io = est.prev
         /\ (est.out = FromInt(0) \/ est.out = est.prev_out)

\* C9 amended (SpecRate): with elapsed time <= 0 the call does not divide,
\* returns 0 and stores its own reading as the new snapshot.
C9_AnomalyRebaselines ==
    (EstCompared /\ EstElapsed <= 0)
      => /\ ~est.divided
         /\ est.out = FromInt(0)
         /\ last_net_io = << est.inp >>

\* C9 witness: a call whose clock reading lies before the snapshot's, after a
\* call that returned a rate.
C9_Witness ==
    /\ EstCompared
    /\ EstElapsed < 0
    /\ est.prev_out # FromInt(0)
    /\ last_net_io = << est.inp >>
    /\ last_net_io # est.prev

\* C10 (Spec): every element of net_history is a percentage in [0, 100].
C10_NetPercent ==
    \A i \in 1..Len(net_history) :
        /\ FracLE(FromInt(0), net_history[i])
        /\ FracLE(net_history[i], FromInt(100))

(* ----------------------------- draw_graph ----------------------------- *)

\* The bar height draw_graph used for the column of data[i]: the distance
\* from the bottom end of the column's line up to its top end, 0 when the
\* column got no line.
BarOf(i) ==
    IF \E l \in graph.lines : l.x = i
    THEN LET l == CHOOSE m \in graph.lines : m.x = i IN l.y_bottom - l.y_top
    ELSE 0

\* value / max_value * (height - 2) of column i, as an exact fraction.
ScaledOf(i) ==
    Frac(graph.data[i].num * (graph.height - 2),
         graph.data[i].den * graph.max_value)

\* The nearest integer to a fraction, a tie going to the even neighbour.
RoundOf(q) ==
    LET f == q.num \div q.den
        twice == 2 * (q.num - f * q.den)
    IN  IF twice < q.den THEN f
        ELSE IF twice > q.den THEN f + 1
        ELSE IF f % 2 = 0 THEN f ELSE f + 1

Clamp(n, lo, hi) == IF n < lo THEN lo ELSE IF n > hi THEN hi ELSE n

\* The largest whole number of rows not above the scaled value, kept within
\* 0..height - 2.
TruncClamped(i) ==
    IF ScaledOf(i).num <= 0
    THEN 0
    ELSE CHOOSE b \in 0..(graph.height - 2) :
           /\ b * ScaledOf(i).den <= ScaledOf(i).num
           /\ b = graph.height - 2 \/ (b + 1) * ScaledOf(i).den > ScaledOf(i).num

\* C11 (SpecGraph): a column whose value is max_value or above gets a run of
\* exactly height - 2 pixels that starts at the bottom interior row
\* y_start + height - 2 and goes upwards, the same run for a value above
\* max_value as for max_value itself.
C11_FullBar ==
    graph.drawn =>
      \A i \in 1..Len(graph.data) :
        FracLE(FromInt(graph.max_value), graph.data[i]) =>
          \E l \in graph.lines :
            /\ l.x = i
            /\ l.y_bottom = graph.y_start + graph.height - 2
            /\ Cardinality(LinePixels(l)) = graph.height - 2

\* C12 as the spec states it (SpecGraph): the bar height of every column is
\* the scaled value rounded to the nearest integer and clamped to
\* 0..height - 2.
C12_BarRounded ==
    graph.drawn =>
      \A i \in 1..Len(graph.data) :
        BarOf(i) = Clamp(RoundOf(ScaledOf(i)), 0, graph.height - 2)

\* The product of line 203 for column i, (value / max_value) * (height - 2)
\* as double arithmetic computes it (the quotient rounded to the nearest
\* double, then the product), with its fractional part dropped by int().
DoubleScaled(i) ==
    LET x == FloatOf(graph.data[i])
        q == Quotient(x.bits, x.exp, graph.max_value)
        size == Truncated(Product(q, graph.height - 2))
    IN  IF graph.data[i].num < 0 THEN -size ELSE size

\* C12 amended (SpecGraph): the bar height of every column is the product
\* line 203 computes in doubles, truncated to a whole number of rows (not
\* rounded to the nearest) and clamped to 0..height - 2.
C12_BarTruncated ==
    graph.drawn =>
      \A i \in 1..Len(graph.data) :
        BarOf(i) = Clamp(DoubleScaled(i), 0, graph.height - 2)

\* C12 witness: the CPU graph has drawn 5 (0.9 rows: no bar, where rounding
\* gives 1) next to the double nearest to 50/9 (5.555555555555555: the exact
\* product is just below 1 row, the double product is 1.0, bar 1).
C12_Witness ==
    /\ graph.drawn
    /\ graph.height = 20
    /\ \E i, j \in 1..Len(graph.data) :
         /\ graph.data[i] = FromInt(5) /\ BarOf(i) = 0
         /\ graph.data[j] = Frac(50, 9) /\ BarOf(j) = 1

\* C13 (SpecGraph): for a series whose values are all zero, or all scale to
\* a bar height of 0, draw_graph draws no bar and the pixels lit are exactly
\* the one pixel border rectangle of the region.
C13_ZeroSeriesBorderOnly ==
    (/\ graph.drawn
     /\ Len(graph.data) > 0
     /\ \A i \in 1..Len(graph.data) : TruncClamped(i) = 0)
    => /\ graph.lines = {}
       /\ graph.pixels = RectangleOutline(0, graph.y_start, WIDTH - 1,
                                          graph.y_start + graph.height - 1)

\* C13 witness: a series of values that all give bar height 0, one of them
\* not zero, has been drawn.
C13_Witness ==
    /\ graph.drawn
    /\ Len(graph.data) > 0
    /\ \A i \in 1..Len(graph.data) : TruncClamped(i) = 0
    /\ \E i \in 1..Len(graph.data) : graph.data[i] = FromInt(5)
    /\ graph.lines = {}

(* --------------------------- exits and faults -------------------------- *)

\* C14 (Spec): whenever main() has ended after its start-up had switched
\* the backlight on, the display has been cleared and the backlight
\* switched off.
C14_CleanExit ==
    (pc["main"] = "done" /\ backlight # "unset")
    => /\ shown = BlankFrame
       /\ backlight = "off"

\* C15 (Spec): a render or display fault in a pass of the loop does not end
\* the loop.
C15_FaultKeepsLoop ==
    [][ (/\ InPass("main")
         /\ ret["main"] = "m_sleep"
         /\ exc' # exc
         /\ exc' \in {"metric", "render", "display"})
        => pc'["main"] # "done" ]_vars

\* C16 (Spec): no failure of a metric query ends a render pass with an
\* exception.
C16_NoMetricCrash == exc # "metric"

\* C17 (Spec): every render pass of the loop, whichever page it draws, has
\* appended one CPU sample by the time it copies its image to the display.
C17_SampleEveryTick ==
    (pc["main"] \in {"u_copy", "u_lower", "u_show"} /\ ret["main"] = "m_sleep")
    => sampled["main"]

\* C18 (Spec): every 'press' a handler gets and every iteration of the loop
\* starts exactly one render pass, in that very step; no pass starts without
\* one of them (or the initial call); and a pass started by a press draws
\* the page that press moved to.
C18_OnePassPerTrigger ==
    [][ /\ (pc["touch"] = "cb" /\ handling[1].event = "press"
                               /\ pc'["touch"] \notin {"cb", "off"})
           => /\ passes' = passes + 1
              /\ pc'["touch"] = "u_t0"
              /\ image'["touch"].pass = passes'
        /\ (pc["main"] = "m_loop" /\ pc'["main"] # "m_loop" /\ exc' = exc)
           => /\ passes' = passes + 1
              /\ pc'["main"] = "u_t0"
              /\ image'["main"].pass = passes'
        /\ passes' # passes
           => /\ passes' = passes + 1
              /\ \/ pc["main"] \in {"m_initial", "m_loop"} /\ pc'["main"] = "u_t0"
                 \/ pc["touch"] = "cb" /\ handling[1].event = "press"
                                       /\ pc'["touch"] = "u_t0"
        /\ pc'["touch"] \in {"u_copy", "u_lower", "u_show"}
           => /\ press_log' # <<>>
              /\ image'["touch"].page = press_log'[Len(press_log')].after
              /\ image'["touch"].page = current_page' ]_vars

\* C18 witness: the pass of a press is about to show the page the press moved
\* to while a pass of the loop is under way.
C18_Witness ==
    /\ pc["touch"] = "u_show"
    /\ image["touch"].page = press_log[Len(press_log)].after
    /\ InPass("main")
    /\ ret["main"] = "m_sleep"

\* C19 (SpecGraph): every pixel of a bar has a column in 1..WIDTH - 2 and a
\* row in y_start + 1 .. y_start + height - 2: no bar on the border, none
\* outside the width of the image.
C19_BarsInsideBorder ==
    graph.drawn =>
      \A l \in graph.lines : \A px \in LinePixels(l) :
        /\ px[1] \in 1..(WIDTH - 2)
        /\ px[2] \in (graph.y_start + 1)..(graph.y_start + graph.height - 2)

\* C20 (Spec): the step in which a handler gets an event other than 'press'
\* returns to the driver, leaves current_page, cpu_history, net_history and
\* last_net_io as they are, starts no render pass and sends nothing to the
\* display.
C20_OtherEventsIgnored ==
    [][ (pc["touch"] = "cb" /\ handling[1].event # "press"
                            /\ pc'["touch"] \notin {"cb", "off"})
        => /\ pc'["touch"] = "idle"
           /\ passes' = passes
           /\ UNCHANGED << globals, lcd_buf, shown >> ]_vars

\* C20 witness: a handler is in a call with an event other than 'press',
\* after a press has moved the page and with a pass of main() under way.
C20_Witness ==
    /\ pc["touch"] = "cb"
    /\ handling[1].event \in {"release", "held"}
    /\ press_log # <<>>
    /\ InPass("main")

====
